---- MODULE Spec2Model ----
(***************************************************************************)
(* Model of src/main.py: the one-shot pipeline                             *)
(*   idea -> prompt -> image synthesis -> materialization -> publish       *)
(* and the Selenium publisher (InstagramBot / post_to_instagram).          *)
(* External services (text endpoint, image endpoint, browser driver, file  *)
(* system) are the environment: every call to them draws its outcome from  *)
(* a small set.  Python values are tagged records, Python exceptions are   *)
(* the "exc" field of an evaluation result.                                *)
(***************************************************************************)
EXTENDS Integers, Sequences, FiniteSets, TLC

VARIABLES
    env,                \* process environment: required variable -> "unset" | "empty" | "set"
    pc,                 \* position of the main script
    exitStatus,         \* -1 while running, else the process exit status
    uncaught,           \* name of the exception that ended the process, "none" otherwise
    calls,              \* pipeline stages invoked so far, in order
    external,           \* TRUE once any external call (network, browser) was made
    idea,               \* main.py:277
    detailed_prompt,    \* main.py:282
    image_path_or_url,  \* main.py:287
    image_path,         \* main.py:292
    caption,            \* main.py:297
    textResp,           \* response of the text endpoint to the latest call
    textOut,            \* evaluation result of the latest generate_* text call
    clientOut,          \* outcome of Client(...) / predict of the latest generate_ai_image call
    imgResult,          \* value returned by client.predict
    imgOut,             \* evaluation result of the latest generate_ai_image call
    fs,                 \* files that exist on disk
    filesWritten,       \* number of destination files created by download_image
    dlOut,              \* evaluation result of the latest download_image call
    ppc,                \* position inside post_to_instagram
    step,               \* index into LoginSteps / PostImageSteps
    popAttempt,         \* loop variable "_" of handle_popup
    popPhase,           \* "wait" (line 155) or "click" (line 156) inside handle_popup
    popInfo,            \* observations of the current / latest handle_popup call
    popHist,            \* results of the finished handle_popup calls, in order
    bot_driver,         \* self.driver: "None" or "session"
    session,            \* browser session: "none" | "open" | "quit"
    success,            \* local variable of post_to_instagram
    loginResult,        \* "unset" | "True" | "False"
    postResult,         \* "unset" | "True" | "False"
    submitClicked,      \* TRUE once login_button.click() completed
    failedAt,           \* state of the publisher in which a failure happened, "none" otherwise
    trace,              \* publisher states reached, in order
    closeCalls,         \* invocations of bot.close()
    quitCalls,          \* invocations of driver.quit()
    opsAfterClose,      \* TRUE if a driver interaction happened after bot.close()
    postImageCalls,     \* invocations of bot.post_image
    publishOut,         \* how post_to_instagram ended: "none" | "True" | "False" | "raised"
    completedLogged     \* TRUE once line 299 logged "Process completed successfully."

vars == << env, pc, exitStatus, uncaught, calls, external, idea, detailed_prompt,
           image_path_or_url, image_path, caption, textResp, textOut, clientOut,
           imgResult, imgOut, fs, filesWritten, dlOut, ppc, step, popAttempt,
           popPhase, popInfo, bot_driver, session, success, loginResult,
           postResult, submitClicked, failedAt, trace, closeCalls, quitCalls,
           opsAfterClose, postImageCalls, popHist, publishOut, completedLogged >>

mainVars == << env, pc, exitStatus, uncaught, calls, external, idea, detailed_prompt,
               image_path_or_url, image_path, caption >>
textVars == << textResp, textOut >>
imageVars == << clientOut, imgResult, imgOut >>
fileVars == << fs, filesWritten, dlOut >>
botVars == << ppc, step, popAttempt, popPhase, popInfo, bot_driver, session, success,
              loginResult, postResult, submitClicked, failedAt, trace, closeCalls,
              quitCalls, opsAfterClose, postImageCalls, popHist, publishOut,
              completedLogged >>

----------------------------------------------------------------------------
(* Bounds of the model *)

\* longest content string the text endpoint returns
MaxLen == 2

\* characters of a content string: one whitespace character, one other
Chars == {" ", "a"}

Strings == UNION { [1..n -> Chars] : n \in 0..MaxLen }

----------------------------------------------------------------------------
(* Python values and evaluation results *)

Null == [t |-> "null"]
Absent == [t |-> "absent"]                \* a key a dict does not have
Invalid == [t |-> "invalid"]              \* a body that is not JSON
Num == [t |-> "num", v |-> 1]
Str(s) == [t |-> "str", v |-> s]
List(items) == [t |-> "list", v |-> items]
Tuple(items) == [t |-> "tuple", v |-> items]
Dict(key, x) == [t |-> "dict", k |-> key, v |-> x]   \* {key: x}; {} when x = Absent
EmptyDict == Dict("", Absent)

PyOk(x) == [exc |-> "none", val |-> x]
PyRaise(e) == [exc |-> e, val |-> Null]
NoCall == [exc |-> "nocall", val |-> Null]

\* bool(x) of Python for the values of the model
Truthy(x) ==
    CASE x.t = "null" -> FALSE
      [] x.t = "str" -> x.v # << >>
      [] x.t = "list" -> x.v # << >>
      [] x.t = "tuple" -> x.v # << >>
      [] x.t = "dict" -> x.v.t # "absent"
      [] OTHER -> TRUE

IsSpace(c) == c = " "

RECURSIVE LStrip(_)
LStrip(s) == IF s = << >> THEN s
             ELSE IF IsSpace(Head(s)) THEN LStrip(Tail(s)) ELSE s

RECURSIVE RStrip(_)
RStrip(s) == IF s = << >> THEN s
             ELSE IF IsSpace(s[Len(s)]) THEN RStrip(SubSeq(s, 1, Len(s) - 1)) ELSE s

\* variant of Strip: lstrip() in place of strip()
Strip_LeftOnly(s) == LStrip(s)

\* str.strip()
Strip(s) == RStrip(LStrip(s))

\* obj.get(key, default)
PyGet(obj, key, default) ==
    IF obj.t = "dict"
    THEN PyOk(IF obj.k = key /\ obj.v.t # "absent" THEN obj.v ELSE default)
    ELSE PyRaise("AttributeError")

\* obj[0]
PyIndex0(obj) ==
    CASE obj.t = "list" -> IF obj.v = << >> THEN PyRaise("IndexError") ELSE PyOk(obj.v[1])
      [] obj.t = "tuple" -> IF obj.v = << >> THEN PyRaise("IndexError") ELSE PyOk(obj.v[1])
      [] obj.t = "str" -> IF obj.v = << >> THEN PyRaise("IndexError")
                          ELSE PyOk(Str(<< obj.v[1] >>))
      [] obj.t = "dict" -> PyRaise("KeyError")
      [] OTHER -> PyRaise("TypeError")

\* obj.strip()
PyStrip(obj) ==
    IF obj.t = "str" THEN PyOk(Str(Strip(obj.v))) ELSE PyRaise("AttributeError")

----------------------------------------------------------------------------
(* Startup: main.py:18-31 *)

required_vars == << "OPENROUTER_API_KEY", "INSTAGRAM_USERNAME",
                    "INSTAGRAM_PASSWORD", "HUGGINGFACE_FLUX_API" >>

RequiredNames == { required_vars[i] : i \in 1..Len(required_vars) }

EnvValues == {"unset", "empty", "set"}

\* variant of EnvMissing: "os.getenv(var) is None", an empty value passes
EnvMissing_OnlyUnset(e, var) == e[var] = "unset"

\* "not os.getenv(var)": None and "" are both falsy
EnvMissing(e, var) == e[var] \in {"unset", "empty"}

\* the for loop of lines 28-31 reaches exit(1)
StartupFails(e) == \E i \in 1..Len(required_vars) : EnvMissing(e, required_vars[i])

----------------------------------------------------------------------------
(* Text endpoint: generate_image_idea, generate_detailed_prompt *)

Contents == {Absent, Null, Num} \cup { Str(s) : s \in Strings }
Messages == {Absent, Null, Str(<< "a" >>)} \cup { Dict("content", c) : c \in Contents }
Choice0s == {Null} \cup { Dict("message", m) : m \in Messages }
ChoicesVals == {Absent, Null, List(<< >>)} \cup { List(<< c >>) : c \in Choice0s }
Bodies == {Invalid, Null, List(<< >>)} \cup { Dict("choices", ch) : ch \in ChoicesVals }

TextResponses ==
    { [net |-> "error", status |-> "none", body |-> Invalid],
      [net |-> "ok", status |-> "non2xx", body |-> Invalid] }
    \cup { [net |-> "ok", status |-> "2xx", body |-> b] : b \in Bodies }

\* what response.json() raises on an unparseable body: requests >= 2.27 raises
\* requests.exceptions.JSONDecodeError (a RequestException), older versions ValueError
JsonDecodeErrors == {"RequestException", "ValueError"}

\* requests.post(...); response.raise_for_status(); data = response.json()
PostChat(resp, decodeExc) ==
    IF resp.net = "error" THEN PyRaise("RequestException")
    ELSE IF resp.status # "2xx" THEN PyRaise("RequestException")
    ELSE IF resp.body.t = "invalid" THEN PyRaise(decodeExc)
    ELSE PyOk(resp.body)

\* data.get("choices", [{}])[0].get("message", {}).get("content", "").strip()
ExtractContent(data) ==
    LET a == PyGet(data, "choices", List(<< EmptyDict >>))
        b == IF a.exc # "none" THEN a ELSE PyIndex0(a.val)
        c == IF b.exc # "none" THEN b ELSE PyGet(b.val, "message", EmptyDict)
        d == IF c.exc # "none" THEN c ELSE PyGet(c.val, "content", Str(<< >>))
    IN  IF d.exc # "none" THEN d ELSE PyStrip(d.val)

\* "except requests.RequestException"
TextCatches(exc) == exc = "RequestException"

generate_image_idea(resp, decodeExc) ==
    LET data == PostChat(resp, decodeExc)
        got == IF data.exc # "none" THEN data ELSE ExtractContent(data.val)
    IN  IF got.exc = "none" THEN PyOk(IF Truthy(got.val) THEN got.val ELSE Null)
        ELSE IF TextCatches(got.exc) THEN PyOk(Null)
        ELSE got

generate_detailed_prompt(anIdea, resp, decodeExc) ==
    LET data == PostChat(resp, decodeExc)
        got == IF data.exc # "none" THEN data ELSE ExtractContent(data.val)
    IN  IF got.exc = "none" THEN PyOk(IF Truthy(got.val) THEN got.val ELSE Null)
        ELSE IF TextCatches(got.exc) THEN PyOk(Null)
        ELSE got

----------------------------------------------------------------------------
(* Image endpoint: generate_ai_image *)

LocalPath == << "/", "o" >>
Url == << "h", "t", "t", "p", "u" >>
Http == << "h", "t", "t", "p" >>

\* s.startswith(prefix)
StartsWith(s, prefix) ==
    Len(s) >= Len(prefix) /\ SubSeq(s, 1, Len(prefix)) = prefix

ImageResults ==
    { Tuple(<< Str(LocalPath), Num >>), Tuple(<< Str(LocalPath) >>),
      Tuple(<< Str(Url), Num >>), Tuple(<< >>), Tuple(<< Num >>),
      Tuple(<< Dict("url", Str(Url)) >>),
      List(<< >>), List(<< Dict("url", Str(Url)) >>), List(<< Dict("url", Null) >>),
      List(<< EmptyDict >>), List(<< Dict("status", Str(<< "a" >>)) >>),
      List(<< Str(LocalPath) >>), List(<< Dict("url", Str(Url)), Null >>),
      Dict("status", Str(<< "a" >>)), Dict("url", Str(Url)),
      Str(LocalPath), Null }

\* os.path.exists(path)
PathExists(path, files) == path \in files

\* variant of ClassifyResult: the path of a tuple is returned without the
\* os.path.exists check of line 94
ClassifyResult_NoExists(result, files) ==
    IF result.t = "tuple" /\ Len(result.v) >= 1 /\ result.v[1].t = "str"
    THEN result.v[1]
    ELSE IF /\ result.t = "list"
            /\ result.v # << >>
            /\ result.v[1].t = "dict"
            /\ result.v[1].k = "url"
            /\ result.v[1].v.t # "absent"
         THEN result.v[1].v
         ELSE Null

\* lines 92-101: the classification of the value client.predict returned
ClassifyResult(result, files) ==
    IF result.t = "tuple" /\ Len(result.v) >= 1 /\ result.v[1].t = "str"
    THEN IF PathExists(result.v[1].v, files) THEN result.v[1] ELSE Null
    ELSE IF /\ result.t = "list"
            /\ result.v # << >>
            /\ result.v[1].t = "dict"
            /\ result.v[1].k = "url"
            /\ result.v[1].v.t # "absent"
         THEN result.v[1].v
         ELSE Null

\* clientExc: what Client(HUGGINGFACE_FLUX_API) raised (line 80, outside the try);
\* predictExc: what client.predict raised (inside the try, "except Exception")
generate_ai_image(clientExc, predictExc, result, files) ==
    IF clientExc # "none" THEN PyRaise(clientExc)
    ELSE IF predictExc # "none" THEN PyOk(Null)
    ELSE PyOk(ClassifyResult(result, files))

ClientExcs == {"none", "ConnectionError", "ValueError"}
PredictExcs == {"none", "AppError", "TimeoutError"}

----------------------------------------------------------------------------
(* Materialization: download_image *)

\* f"generated_image_{uuid.uuid4().hex}.jpg": a fresh name
DestFile == << "g" >>

GetOutcomes == {"ok", "RequestException", "non2xx"}
WriteOutcomes == {"ok", "open_IOError", "write_IOError"}
CopyOutcomes == {"ok", "shutil.Error", "IOError_partial", "IOError"}
ConvertOutcomes == {"ok", "open_IOError", "save_IOError", "DecompressionBombError"}

\* "except (requests.RequestException, shutil.Error, IOError)"
DownloadCatches(exc) == exc \in {"RequestException", "shutil.Error", "IOError"}

\* lines 120-122, once the bytes are at the destination
Transcode(files, convertOut) ==
    CASE convertOut = "ok" -> [exc |-> "none", val |-> Str(DestFile), files |-> files]
      [] convertOut = "DecompressionBombError" ->
            [exc |-> "DecompressionBombError", val |-> Null, files |-> files]
      [] OTHER -> [exc |-> "IOError", val |-> Null, files |-> files]

\* variant of FetchOrCopy: an existing local file is handed on as it is, the
\* shutil.copy of line 116 is missing
FetchOrCopy_NoCopy(ref, files, getOut, writeOut, copyOut) ==
    IF ref.t # "str" THEN [exc |-> "AttributeError", val |-> Null, files |-> files]
    ELSE IF StartsWith(ref.v, Http)
    THEN IF getOut # "ok" THEN [exc |-> "RequestException", val |-> Null, files |-> files]
         ELSE IF writeOut = "open_IOError"
              THEN [exc |-> "IOError", val |-> Null, files |-> files]
         ELSE IF writeOut = "write_IOError"
              THEN [exc |-> "IOError", val |-> Null, files |-> files \cup {DestFile}]
         ELSE [exc |-> "none", val |-> Str(DestFile), files |-> files \cup {DestFile}]
    ELSE IF PathExists(ref.v, files)
    THEN [exc |-> "none", val |-> ref, files |-> files]
    ELSE [exc |-> "invalid", val |-> Null, files |-> files]

\* lines 109-119: fetch or copy; the result carries the files on disk afterwards
FetchOrCopy(ref, files, getOut, writeOut, copyOut) ==
    IF ref.t # "str" THEN [exc |-> "AttributeError", val |-> Null, files |-> files]
    ELSE IF StartsWith(ref.v, Http)
    THEN IF getOut # "ok" THEN [exc |-> "RequestException", val |-> Null, files |-> files]
         ELSE IF writeOut = "open_IOError"
              THEN [exc |-> "IOError", val |-> Null, files |-> files]
         ELSE IF writeOut = "write_IOError"
              THEN [exc |-> "IOError", val |-> Null, files |-> files \cup {DestFile}]
         ELSE [exc |-> "none", val |-> Str(DestFile), files |-> files \cup {DestFile}]
    ELSE IF PathExists(ref.v, files)
    THEN CASE copyOut = "ok" ->
                [exc |-> "none", val |-> Str(DestFile), files |-> files \cup {DestFile}]
           [] copyOut = "shutil.Error" ->
                [exc |-> "shutil.Error", val |-> Null, files |-> files]
           [] copyOut = "IOError_partial" ->
                [exc |-> "IOError", val |-> Null, files |-> files \cup {DestFile}]
           [] OTHER -> [exc |-> "IOError", val |-> Null, files |-> files]
    ELSE [exc |-> "invalid", val |-> Null, files |-> files]

download_image(ref, files, getOut, writeOut, copyOut, convertOut) ==
    LET got == FetchOrCopy(ref, files, getOut, writeOut, copyOut)
        done == IF got.exc = "none" THEN Transcode(got.files, convertOut) ELSE got
    IN  IF done.exc = "none" THEN done
        ELSE IF done.exc = "invalid" \/ DownloadCatches(done.exc)
             THEN [exc |-> "none", val |-> Null, files |-> done.files]
        ELSE done

----------------------------------------------------------------------------
(* Main workflow: main.py:275-299 *)

Unset == [t |-> "unset"]

\* no handle_popup call yet
NoPopup == [desc |-> "none", at |-> 0, attempts |-> 0, wait1 |-> "none",
            click1 |-> "none", wait2 |-> "none", click2 |-> "none", result |-> "none"]

StageAfter(stage) ==
    CASE stage = "idea" -> "prompt"
      [] stage = "prompt" -> "image"
      [] stage = "image" -> "download"
      [] stage = "download" -> "publish"

\* variant of AfterStage: the check after download_image (line 293) is missing
AfterStage_NoDownloadCheck(stage, value) ==
    IF stage = "download" \/ Truthy(value) THEN StageAfter(stage) ELSE "exit"

\* variant of AfterStage: a stage that gave the failure signal is tried again
AfterStage_Retry(stage, value) ==
    IF Truthy(value) THEN StageAfter(stage) ELSE stage

\* "if not <value>: ... exit(1)" after each stage (lines 278, 283, 288, 293)
AfterStage(stage, value) ==
    IF Truthy(value) THEN StageAfter(stage) ELSE "exit"

\* the process ends: exit(1) after a failure signal, or an uncaught exception
Ends(next, exc) == next = "exit" \/ exc # "none"

Init ==
    /\ env \in [RequiredNames -> EnvValues]
    /\ pc = "startup"
    /\ exitStatus = -1
    /\ uncaught = "none"
    /\ calls = << >>
    /\ external = FALSE
    /\ idea = Unset
    /\ detailed_prompt = Unset
    /\ image_path_or_url = Unset
    /\ image_path = Unset
    /\ caption = Unset
    /\ textResp = Unset
    /\ textOut = NoCall
    /\ clientOut = [client |-> "nocall", predict |-> "nocall"]
    /\ imgResult = Unset
    /\ imgOut = NoCall
    /\ fs = {}
    /\ filesWritten = 0
    /\ dlOut = NoCall
    /\ ppc = "none"
    /\ step = 0
    /\ popAttempt = 0
    /\ popPhase = "none"
    /\ popInfo = NoPopup
    /\ bot_driver = "None"
    /\ session = "none"
    /\ success = FALSE
    /\ loginResult = "unset"
    /\ postResult = "unset"
    /\ submitClicked = FALSE
    /\ failedAt = "none"
    /\ trace = << >>
    /\ closeCalls = 0
    /\ quitCalls = 0
    /\ opsAfterClose = FALSE
    /\ postImageCalls = 0
    /\ popHist = << >>
    /\ publishOut = "none"
    /\ completedLogged = FALSE

\* lines 18-31: the environment check at import time
Startup ==
    /\ pc = "startup"
    /\ IF StartupFails(env)
       THEN /\ pc' = "exit"
            /\ exitStatus' = 1
       ELSE /\ pc' = "idea"
            /\ exitStatus' = exitStatus
    /\ UNCHANGED << env, uncaught, calls, external, idea, detailed_prompt,
                    image_path_or_url, image_path, caption >>
    /\ UNCHANGED << textVars, imageVars, fileVars, botVars >>

\* lines 277-281
MainIdea ==
    /\ pc = "idea"
    /\ \E resp \in TextResponses, decodeExc \in JsonDecodeErrors :
          LET out == generate_image_idea(resp, decodeExc)
              next == AfterStage("idea", out.val)
          IN  /\ textResp' = resp
              /\ textOut' = out
              /\ idea' = IF out.exc = "none" THEN out.val ELSE idea
              /\ uncaught' = IF out.exc = "none" THEN uncaught ELSE out.exc
              /\ pc' = IF Ends(next, out.exc) THEN "exit" ELSE next
              /\ exitStatus' = IF Ends(next, out.exc) THEN 1 ELSE exitStatus
    /\ calls' = Append(calls, "idea")
    /\ external' = TRUE
    /\ UNCHANGED << env, detailed_prompt, image_path_or_url, image_path, caption >>
    /\ UNCHANGED << imageVars, fileVars, botVars >>

\* lines 282-286
MainPrompt ==
    /\ pc = "prompt"
    /\ \E resp \in TextResponses, decodeExc \in JsonDecodeErrors :
          LET out == generate_detailed_prompt(idea, resp, decodeExc)
              next == AfterStage("prompt", out.val)
          IN  /\ textResp' = resp
              /\ textOut' = out
              /\ detailed_prompt' = IF out.exc = "none" THEN out.val ELSE detailed_prompt
              /\ uncaught' = IF out.exc = "none" THEN uncaught ELSE out.exc
              /\ pc' = IF Ends(next, out.exc) THEN "exit" ELSE next
              /\ exitStatus' = IF Ends(next, out.exc) THEN 1 ELSE exitStatus
    /\ calls' = Append(calls, "prompt")
    /\ external' = TRUE
    /\ UNCHANGED << env, idea, image_path_or_url, image_path, caption >>
    /\ UNCHANGED << imageVars, fileVars, botVars >>

\* lines 287-291
MainImage ==
    /\ pc = "image"
    /\ \E clientExc \in ClientExcs, predictExc \in PredictExcs,
          result \in ImageResults, created \in SUBSET {LocalPath} :
          LET files == fs \cup created
              out == generate_ai_image(clientExc, predictExc, result, files)
              next == AfterStage("image", out.val)
          IN  /\ clientOut' = [client |-> clientExc,
                               predict |-> IF clientExc = "none" THEN predictExc
                                           ELSE "nocall"]
              /\ imgResult' = IF clientExc = "none" /\ predictExc = "none"
                              THEN result ELSE Unset
              /\ imgOut' = out
              /\ fs' = IF clientExc = "none" /\ predictExc = "none" THEN files ELSE fs
              /\ image_path_or_url' = IF out.exc = "none" THEN out.val
                                      ELSE image_path_or_url
              /\ uncaught' = IF out.exc = "none" THEN uncaught ELSE out.exc
              /\ pc' = IF Ends(next, out.exc) THEN "exit" ELSE next
              /\ exitStatus' = IF Ends(next, out.exc) THEN 1 ELSE exitStatus
    /\ calls' = Append(calls, "image")
    /\ external' = TRUE
    /\ UNCHANGED << env, idea, detailed_prompt, image_path, caption >>
    /\ UNCHANGED << textVars, filesWritten, dlOut, botVars >>

\* lines 292-296
MainDownload ==
    /\ pc = "download"
    /\ \E getOut \in GetOutcomes, writeOut \in WriteOutcomes,
          copyOut \in CopyOutcomes, convertOut \in ConvertOutcomes :
          LET out == download_image(image_path_or_url, fs, getOut, writeOut,
                                    copyOut, convertOut)
              next == AfterStage("download", out.val)
          IN  /\ dlOut' = [exc |-> out.exc, val |-> out.val]
              /\ fs' = out.files
              /\ filesWritten' = IF DestFile \in out.files THEN filesWritten + 1
                                 ELSE filesWritten
              /\ image_path' = IF out.exc = "none" THEN out.val ELSE image_path
              /\ uncaught' = IF out.exc = "none" THEN uncaught ELSE out.exc
              /\ pc' = IF Ends(next, out.exc) THEN "exit" ELSE next
              /\ exitStatus' = IF Ends(next, out.exc) THEN 1 ELSE exitStatus
    /\ calls' = Append(calls, "download")
    /\ external' = (external \/ StartsWith(image_path_or_url.v, Http))
    /\ UNCHANGED << env, idea, detailed_prompt, image_path_or_url, caption >>
    /\ UNCHANGED << textVars, imageVars, botVars >>

----------------------------------------------------------------------------
(* InstagramBot and post_to_instagram: main.py:128-272 *)

\* WebDriverWait(self.driver, 30).until(...): the condition held, the wait timed
\* out, or the driver failed
WaitOutcomes == {"ok", "TimeoutException", "WebDriverException"}

\* driver.get, element.click, element.send_keys
ActOutcomes == {"ok", "TimeoutException", "NoSuchElementException", "WebDriverException"}

\* webdriver.Chrome(...) raised; implicitly_wait raised (self.driver is set by then)
InitOutcomes == {"ok", "Chrome_raised", "implicitly_wait_raised"}

QuitOutcomes == {"ok", "WebDriverException"}

OutcomesOf(op) == IF op = "wait" THEN WaitOutcomes ELSE ActOutcomes

\* variant of PopupRetries: one more round of the loop
PopupRetries_OneMore == 2 + 1

\* "for _ in range(2)" (line 153)
PopupRetries == 2

\* "except TimeoutException" (line 160)
PopupCatches(exc) == exc = "TimeoutException"

\* "except Exception" (line 193)
LoginCatches(exc) == exc \in {"TimeoutException", "NoSuchElementException",
                              "WebDriverException"}

\* the three except clauses of post_image (lines 247-255), all "return False"
PostImageCatches(exc) == exc \in {"TimeoutException", "NoSuchElementException",
                                  "WebDriverException"}

\* the body of login, lines 167-190
LoginSteps ==
    << [op |-> "get", el |-> "instagram.com", reach |-> "AUTHENTICATING"],
       [op |-> "handle_popup", el |-> "Cookie consent", reach |-> ""],
       [op |-> "wait", el |-> "username", reach |-> ""],
       [op |-> "send_keys", el |-> "username", reach |-> ""],
       [op |-> "wait", el |-> "password", reach |-> ""],
       [op |-> "send_keys", el |-> "password", reach |-> ""],
       [op |-> "wait", el |-> "submit", reach |-> ""],
       [op |-> "click", el |-> "submit", reach |-> ""],
       [op |-> "handle_popup", el |-> "Save Login Info", reach |-> ""],
       [op |-> "handle_popup", el |-> "Notifications", reach |-> ""] >>

\* variant of PostImageSteps: the verification wait of lines 242-243 is missing
PostImageSteps_NoVerify ==
    << [op |-> "wait", el |-> "New post", reach |-> ""],
       [op |-> "click", el |-> "New post", reach |-> "UPLOAD_STARTED"],
       [op |-> "wait", el |-> "file input", reach |-> ""],
       [op |-> "send_keys", el |-> "file input", reach |-> "FILE_SELECTED"],
       [op |-> "wait", el |-> "Next (crop)", reach |-> ""],
       [op |-> "click", el |-> "Next (crop)", reach |-> "CROP_CONFIRMED"],
       [op |-> "wait", el |-> "Next (filters)", reach |-> ""],
       [op |-> "click", el |-> "Next (filters)", reach |-> "FILTERS_CONFIRMED"],
       [op |-> "wait", el |-> "caption", reach |-> ""],
       [op |-> "send_keys", el |-> "caption", reach |-> "CAPTION_ENTERED"],
       [op |-> "wait", el |-> "Share", reach |-> ""],
       [op |-> "click", el |-> "Share", reach |-> "SHARED"] >>

\* the body of post_image, lines 199-245
PostImageSteps ==
    << [op |-> "wait", el |-> "New post", reach |-> ""],
       [op |-> "click", el |-> "New post", reach |-> "UPLOAD_STARTED"],
       [op |-> "wait", el |-> "file input", reach |-> ""],
       [op |-> "send_keys", el |-> "file input", reach |-> "FILE_SELECTED"],
       [op |-> "wait", el |-> "Next (crop)", reach |-> ""],
       [op |-> "click", el |-> "Next (crop)", reach |-> "CROP_CONFIRMED"],
       [op |-> "wait", el |-> "Next (filters)", reach |-> ""],
       [op |-> "click", el |-> "Next (filters)", reach |-> "FILTERS_CONFIRMED"],
       [op |-> "wait", el |-> "caption", reach |-> ""],
       [op |-> "send_keys", el |-> "caption", reach |-> "CAPTION_ENTERED"],
       [op |-> "wait", el |-> "Share", reach |-> ""],
       [op |-> "click", el |-> "Share", reach |-> "SHARED"],
       [op |-> "wait", el |-> "Share invisible", reach |-> "VERIFIED"] >>

Last(seq) == seq[Len(seq)]

Reached(tr, st) == IF st.reach = "" THEN tr ELSE Append(tr, st.reach)

\* variant of AfterTry: bot.close() follows the try block without "finally", so
\* the except path of line 268 returns without it
AfterTry_NoFinally(raised) == IF raised THEN "returned" ELSE "close"

\* where post_to_instagram goes when its try block (lines 265-267) is left, with
\* an exception (raised = TRUE, handled at line 268) or without: the finally
\* clause of line 270 runs either way
AfterTry(raised) == "close"

\* the observations of the handle_popup call made at step n of login
FreshPopup(n) == [NoPopup EXCEPT !.desc = LoginSteps[n].el, !.at = n]

\* the observations so far of the handle_popup call in progress
CurrentPopup == IF popAttempt = 0 /\ popPhase = "wait" THEN FreshPopup(step) ELSE popInfo

\* login goes on with step n of its body with trace tr, or returns True after the
\* last one; line 266-267 then calls post_image
LoginGoto(n, tr, info) ==
    /\ failedAt' = failedAt
    /\ popAttempt' = 0
    /\ IF n > Len(LoginSteps)
       THEN /\ ppc' = "post_image"
            /\ step' = 1
            /\ popPhase' = "none"
            /\ popInfo' = info
            /\ loginResult' = "True"
            /\ postImageCalls' = postImageCalls + 1
            /\ trace' = Append(tr, "AUTHENTICATED")
       ELSE /\ ppc' = "login"
            /\ step' = n
            /\ popPhase' = IF LoginSteps[n].op = "handle_popup" THEN "wait" ELSE "none"
            /\ popInfo' = info
            /\ loginResult' = loginResult
            /\ postImageCalls' = postImageCalls
            /\ trace' = tr

\* an exception inside login: caught at line 193 (login returns False, line 266
\* skips post_image), else it would reach line 268
LoginAbort(info, exc) ==
    /\ failedAt' = Last(trace)
    /\ trace' = Append(trace, "FAILED")
    /\ popAttempt' = popAttempt
    /\ popPhase' = "none"
    /\ popInfo' = info
    /\ step' = step
    /\ postImageCalls' = postImageCalls
    /\ loginResult' = IF LoginCatches(exc) THEN "False" ELSE loginResult
    /\ ppc' = AfterTry(~LoginCatches(exc))

\* variant of DriverAfterInit: self.driver is assigned only after
\* implicitly_wait returned
DriverAfterInit_Late(o) == IF o = "ok" THEN "session" ELSE "None"

\* self.driver after init_driver: line 147 assigns it before implicitly_wait (149)
DriverAfterInit(o) == IF o = "Chrome_raised" THEN "None" ELSE "session"

\* lines 262-265: bot = InstagramBot(); success = False; bot.init_driver()
InitDriver ==
    /\ pc = "publishing"
    /\ ppc = "init_driver"
    /\ \E o \in InitOutcomes :
          /\ bot_driver' = DriverAfterInit(o)
          /\ session' = IF o = "Chrome_raised" THEN session ELSE "open"
          /\ IF o = "ok"
             THEN /\ ppc' = "login"
                  /\ step' = 1
                  /\ trace' = Append(trace, "DRIVER_READY")
                  /\ failedAt' = failedAt
             ELSE /\ ppc' = AfterTry(TRUE)
                  /\ step' = step
                  /\ trace' = Append(trace, "FAILED")
                  /\ failedAt' = Last(trace)
    /\ opsAfterClose' = (opsAfterClose \/ closeCalls > 0)
    /\ UNCHANGED << popAttempt, popPhase, popInfo, popHist, success, loginResult,
                    postResult, submitClicked, closeCalls, quitCalls, postImageCalls,
                    publishOut, completedLogged >>
    /\ UNCHANGED << mainVars, textVars, imageVars, fileVars >>

\* one of the driver calls of login that is not a handle_popup call
LoginOp ==
    /\ pc = "publishing"
    /\ ppc = "login"
    /\ LoginSteps[step].op # "handle_popup"
    /\ \E o \in OutcomesOf(LoginSteps[step].op) :
          IF o = "ok"
          THEN /\ LoginGoto(step + 1, Reached(trace, LoginSteps[step]), popInfo)
               /\ submitClicked' = (submitClicked \/ (LoginSteps[step].op = "click"))
          ELSE /\ LoginAbort(popInfo, o)
               /\ submitClicked' = submitClicked
    /\ opsAfterClose' = (opsAfterClose \/ closeCalls > 0)
    /\ UNCHANGED << popHist, bot_driver, session, success, postResult, closeCalls,
                    quitCalls, publishOut, completedLogged >>
    /\ UNCHANGED << mainVars, textVars, imageVars, fileVars >>

\* lines 160-163: the attempt timed out; the next attempt, or "return False"
PopupMiss(info) ==
    IF popAttempt + 1 < PopupRetries
    THEN /\ popAttempt' = popAttempt + 1
         /\ popPhase' = "wait"
         /\ popInfo' = info
         /\ popHist' = popHist
         /\ UNCHANGED << ppc, step, loginResult, postImageCalls, trace, failedAt >>
    ELSE /\ LoginGoto(step + 1, trace, [info EXCEPT !.result = "False"])
         /\ popHist' = Append(popHist, "False")

\* line 155 of handle_popup: the probe for the dismiss target
PopupWait ==
    /\ pc = "publishing"
    /\ ppc = "login"
    /\ LoginSteps[step].op = "handle_popup"
    /\ popPhase = "wait"
    /\ \E o \in WaitOutcomes :
          LET info == [CurrentPopup EXCEPT !.attempts = @ + 1,
                                      !.wait1 = IF popAttempt = 0 THEN o ELSE @,
                                      !.wait2 = IF popAttempt = 1 THEN o ELSE @]
          IN  CASE o = "ok" ->
                     /\ popPhase' = "click"
                     /\ popInfo' = info
                     /\ UNCHANGED << ppc, step, popAttempt, popHist, loginResult,
                                     postImageCalls, trace, failedAt >>
                [] o # "ok" /\ PopupCatches(o) -> PopupMiss(info)
                [] OTHER ->
                     /\ LoginAbort([info EXCEPT !.result = "raised"], o)
                     /\ popHist' = Append(popHist, "raised")
    /\ opsAfterClose' = (opsAfterClose \/ closeCalls > 0)
    /\ UNCHANGED << bot_driver, session, success, postResult, submitClicked,
                    closeCalls, quitCalls, publishOut, completedLogged >>
    /\ UNCHANGED << mainVars, textVars, imageVars, fileVars >>

\* lines 156-159 of handle_popup: button.click() and "return True"
PopupClick ==
    /\ pc = "publishing"
    /\ ppc = "login"
    /\ LoginSteps[step].op = "handle_popup"
    /\ popPhase = "click"
    /\ \E o \in ActOutcomes :
          LET info == [CurrentPopup EXCEPT !.click1 = IF popAttempt = 0 THEN o ELSE @,
                                      !.click2 = IF popAttempt = 1 THEN o ELSE @]
          IN  CASE o = "ok" ->
                     /\ LoginGoto(step + 1, trace, [info EXCEPT !.result = "True"])
                     /\ popHist' = Append(popHist, "True")
                [] o # "ok" /\ PopupCatches(o) -> PopupMiss(info)
                [] OTHER ->
                     /\ LoginAbort([info EXCEPT !.result = "raised"], o)
                     /\ popHist' = Append(popHist, "raised")
    /\ opsAfterClose' = (opsAfterClose \/ closeCalls > 0)
    /\ UNCHANGED << bot_driver, session, success, postResult, submitClicked,
                    closeCalls, quitCalls, publishOut, completedLogged >>
    /\ UNCHANGED << mainVars, textVars, imageVars, fileVars >>

\* one of the driver calls of post_image; after the last one "return True"
\* (line 245), on an exception "return False"; line 267 assigns success
PostImageOp ==
    /\ pc = "publishing"
    /\ ppc = "post_image"
    /\ \E o \in OutcomesOf(PostImageSteps[step].op) :
          IF o = "ok"
          THEN /\ trace' = Reached(trace, PostImageSteps[step])
               /\ failedAt' = failedAt
               /\ IF step = Len(PostImageSteps)
                  THEN /\ postResult' = "True"
                       /\ success' = TRUE
                       /\ ppc' = AfterTry(FALSE)
                       /\ step' = step
                  ELSE /\ postResult' = postResult
                       /\ success' = success
                       /\ ppc' = ppc
                       /\ step' = step + 1
          ELSE /\ trace' = Append(trace, "FAILED")
               /\ failedAt' = Last(trace)
               /\ postResult' = IF PostImageCatches(o) THEN "False" ELSE postResult
               /\ success' = FALSE
               /\ ppc' = AfterTry(~PostImageCatches(o))
               /\ step' = step
    /\ opsAfterClose' = (opsAfterClose \/ closeCalls > 0)
    /\ UNCHANGED << popAttempt, popPhase, popInfo, popHist, bot_driver, session,
                    loginResult, submitClicked, closeCalls, quitCalls, postImageCalls,
                    publishOut, completedLogged >>
    /\ UNCHANGED << mainVars, textVars, imageVars, fileVars >>

\* lines 270-272: "finally: bot.close()" (lines 257-259), then "return success";
\* an exception of driver.quit() leaves post_to_instagram and ends the process
Close ==
    /\ pc = "publishing"
    /\ ppc = "close"
    /\ closeCalls' = closeCalls + 1
    /\ IF bot_driver # "None"
       THEN \E q \in QuitOutcomes :
               /\ quitCalls' = quitCalls + 1
               /\ session' = IF q = "ok" THEN "quit" ELSE session
               /\ ppc' = IF q = "ok" THEN "returned" ELSE "raised"
               /\ publishOut' = IF q # "ok" THEN "raised"
                                ELSE IF success THEN "True" ELSE "False"
               /\ pc' = IF q = "ok" THEN pc ELSE "exit"
               /\ exitStatus' = IF q = "ok" THEN exitStatus ELSE 1
               /\ uncaught' = IF q = "ok" THEN uncaught ELSE q
       ELSE /\ quitCalls' = quitCalls
            /\ session' = session
            /\ ppc' = "returned"
            /\ publishOut' = IF success THEN "True" ELSE "False"
            /\ UNCHANGED << pc, exitStatus, uncaught >>
    /\ UNCHANGED << env, calls, external, idea, detailed_prompt, image_path_or_url,
                    image_path, caption >>
    /\ UNCHANGED << step, popAttempt, popPhase, popInfo, popHist, bot_driver, success,
                    loginResult, postResult, submitClicked, failedAt, trace,
                    opsAfterClose, postImageCalls, completedLogged >>
    /\ UNCHANGED << textVars, imageVars, fileVars >>

\* lines 297-298: the caption and the call of post_to_instagram
MainPublish ==
    /\ pc = "publish"
    /\ pc' = "publishing"
    /\ caption' = Str(<< "G" >> \o detailed_prompt.v)
    /\ calls' = Append(calls, "publish")
    /\ external' = TRUE
    /\ ppc' = "init_driver"
    /\ success' = FALSE
    /\ trace' = << "INIT" >>
    /\ UNCHANGED << env, exitStatus, uncaught, idea, detailed_prompt,
                    image_path_or_url, image_path >>
    /\ UNCHANGED << step, popAttempt, popPhase, popInfo, popHist, bot_driver, session,
                    loginResult, postResult, submitClicked, failedAt, closeCalls,
                    quitCalls, opsAfterClose, postImageCalls, publishOut,
                    completedLogged >>
    /\ UNCHANGED << textVars, imageVars, fileVars >>

\* line 299, after post_to_instagram returned; the script ends
MainFinish ==
    /\ pc = "publishing"
    /\ ppc = "returned"
    /\ pc' = "exit"
    /\ exitStatus' = 0
    /\ completedLogged' = TRUE
    /\ UNCHANGED << env, uncaught, calls, external, idea, detailed_prompt,
                    image_path_or_url, image_path, caption >>
    /\ UNCHANGED << ppc, step, popAttempt, popPhase, popInfo, popHist, bot_driver,
                    session, success, loginResult, postResult, submitClicked, failedAt,
                    trace, closeCalls, quitCalls, opsAfterClose, postImageCalls,
                    publishOut >>
    /\ UNCHANGED << textVars, imageVars, fileVars >>

Next ==
    \/ Startup
    \/ MainIdea
    \/ MainPrompt
    \/ MainImage
    \/ MainDownload
    \/ MainPublish
    \/ InitDriver
    \/ LoginOp
    \/ PopupWait
    \/ PopupClick
    \/ PostImageOp
    \/ Close
    \/ MainFinish

Spec == Init /\ [][Next]_vars

\* the script is one sequential thread and every external call returns or times
\* out (requests timeout=30, WebDriverWait 30 s): a step that can be taken is taken
FairSpec == Spec /\ WF_vars(Next)

----------------------------------------------------------------------------
(* Properties *)

\* post_to_instagram was left, by return or by an exception
PublishLeft == ppc \in {"returned", "raised"}

\* C1: on every exit path of post_to_instagram (a failure in any state from INIT
\* to SHARED, or full success) bot.close() is invoked exactly once, before
\* post_to_instagram is left, and no driver interaction follows it.
C1_TeardownExactlyOnce ==
    /\ closeCalls <= 1
    /\ PublishLeft => closeCalls = 1
    /\ ~opsAfterClose

C1_Witness ==
    /\ failedAt = "SHARED"
    /\ ppc = "returned"
    /\ closeCalls = 1

PipelineOrder == << "idea", "prompt", "image", "download", "publish" >>

\* a stage returned a usable value: assigned and truthy
Usable(x) == x.t \notin {"unset", "null"} /\ (x.t = "str" => x.v # << >>)

\* a stage returned the failure signal (None or empty)
FailureSignal(x) == x.t = "null" \/ (x.t = "str" /\ x.v = << >>)

\* C2: the stages run in the order idea, prompt, image synthesis,
\* materialization, publish; once a stage returned a failure signal no later
\* stage is invoked, and post_to_instagram is invoked only after all four
\* earlier stages returned a usable value.
C2_StagesInOrderAbortOnFailure ==
    /\ Len(calls) <= Len(PipelineOrder)
    /\ calls = SubSeq(PipelineOrder, 1, Len(calls))
    /\ Len(calls) >= 2 => Usable(idea)
    /\ Len(calls) >= 3 => Usable(detailed_prompt)
    /\ Len(calls) >= 4 => Usable(image_path_or_url)
    /\ Len(calls) >= 5 => Usable(image_path)
    /\ FailureSignal(idea) => Len(calls) = 1
    /\ FailureSignal(detailed_prompt) => Len(calls) = 2
    /\ FailureSignal(image_path_or_url) => Len(calls) = 3
    /\ FailureSignal(image_path) => Len(calls) = 4
    /\ ppc # "none" => Len(calls) = 5

C2_Witness ==
    /\ pc = "exit"
    /\ calls = << "idea", "prompt", "image" >>
    /\ FailureSignal(image_path_or_url)
    /\ ppc = "none"

SuccessOrder ==
    << "DRIVER_READY", "AUTHENTICATED", "UPLOAD_STARTED", "FILE_SELECTED",
       "CROP_CONFIRMED", "FILTERS_CONFIRMED", "CAPTION_ENTERED", "SHARED", "VERIFIED" >>

NotTransient(st) == st \notin {"INIT", "AUTHENTICATING"}

\* C3: post_to_instagram yields success only after the publisher passed through
\* DRIVER_READY, AUTHENTICATED, UPLOAD_STARTED, FILE_SELECTED, CROP_CONFIRMED,
\* FILTERS_CONFIRMED, CAPTION_ENTERED, SHARED, VERIFIED, each once, in this order.
C3_SuccessOnlyAfterFullOrder ==
    (success \/ publishOut = "True") => SelectSeq(trace, NotTransient) = SuccessOrder

C3_Witness ==
    /\ publishOut = "True"
    /\ ppc = "returned"

\* C4: when authentication fails, login returns false, post_image is never
\* invoked, the driver is closed and post_to_instagram returns false.
C4_AuthFailureReturnsFalse ==
    loginResult = "False" =>
        /\ postImageCalls = 0
        /\ PublishLeft => (quitCalls = 1 /\ publishOut = "False")

PopupBeforeClick(n) == ppc = "login" /\ popPhase = "click" /\ popAttempt = n

ProbesDecided ==
    \A o \in {popInfo.wait1, popInfo.wait2} : o \in {"none", "ok", "TimeoutException"}

\* C6: the optional dialogs never decide the outcome of login: whichever of the
\* three dialogs are present or absent, once the credential fields were located
\* and the submit button was clicked login returns true, and neither presence,
\* absence nor dismissal of a dialog makes login fail at a handle_popup step.
C6_DialogsNeverFailLogin ==
    ProbesDecided =>
        /\ (submitClicked /\ ppc # "login") => loginResult = "True"
        /\ loginResult = "False" => LoginSteps[step].op # "handle_popup"

\* C7: when one of the four required environment variables is missing or empty,
\* the process exits with a nonzero status before any pipeline stage is invoked
\* and before any external call.
C7_MissingEnvExitsFirst ==
    (\E v \in RequiredNames : env[v] \in {"unset", "empty"}) =>
        /\ calls = << >>
        /\ ~external
        /\ pc \in {"startup", "exit"}
        /\ pc = "exit" => exitStatus = 1

C7_Witness ==
    /\ pc = "exit"
    /\ exitStatus = 1
    /\ env["HUGGINGFACE_FLUX_API"] = "empty"
    /\ \A v \in RequiredNames \ {"HUGGINGFACE_FLUX_API"} : env[v] = "set"

\* C8: generate_image_idea and generate_detailed_prompt never raise: every
\* response of the text endpoint gives a value or None.
C8_TextStagesNeverRaise == textOut.exc \in {"nocall", "none"}

\* C9: generate_ai_image never propagates an exception, whether the client
\* construction or the predict call raised it.
C9_ImageStageNeverRaises == imgOut.exc \in {"nocall", "none"}

\* the classification the image endpoint's response is to get
Classified(result, files) ==
    CASE result.t = "tuple" /\ result.v # << >> /\ result.v[1].t = "str"
              /\ result.v[1].v \in files -> result.v[1]
      [] result.t = "list" /\ result.v # << >> /\ result.v[1].t = "dict"
              /\ result.v[1].k = "url" /\ result.v[1].v # Absent -> result.v[1].v
      [] OTHER -> Null

\* C10: a tuple whose first element is a string path that exists on disk yields
\* that path, a non-empty list whose first element is a record with a url field
\* yields that url, every other response shape yields None.
C10_ResponseClassification ==
    imgResult # Unset => imgOut = PyOk(Classified(imgResult, fs))

C10_Witness ==
    /\ imgResult = Tuple(<< Str(LocalPath), Num >>)
    /\ LocalPath \notin fs
    /\ imgOut = PyOk(Null)
    /\ pc = "exit"

\* the stages invoked so far
Invoked == { calls[i] : i \in 1..Len(calls) }

\* C11: a run that aborts at idea generation, prompt expansion or image
\* synthesis never invokes download_image and writes no image file; a successful
\* run writes exactly one, a fresh file that is not the one an earlier stage
\* produced.
C11_FilesWrittenPerRun ==
    /\ "download" \notin Invoked => (filesWritten = 0 /\ DestFile \notin fs)
    /\ (pc = "exit" /\ Len(calls) \in 1..3) => "download" \notin Invoked
    /\ Len(calls) = 5 =>
           /\ filesWritten = 1
           /\ image_path = Str(DestFile)
           /\ DestFile \in fs
           /\ image_path # image_path_or_url

C11_Witness ==
    /\ completedLogged
    /\ filesWritten = 1
    /\ image_path_or_url = Str(LocalPath)
    /\ image_path = Str(DestFile)

\* no stage occurs twice among the invoked stages
EachStageOnce == \A i, j \in 1..Len(calls) : calls[i] = calls[j] => i = j

\* C12: one process invocation runs the pipeline once: each of the five stages
\* is invoked at most once, none is invoked again after it failed, and the
\* process eventually exits, given that every external call returns or times out.
C12_RunsOnceThenExits ==
    /\ [](EachStageOnce /\ Len(calls) <= 5)
    /\ <>(pc = "exit")

C12_Witness ==
    /\ pc = "exit"
    /\ exitStatus = 0
    /\ calls = PipelineOrder

\* a response of the text endpoint of the documented shape: status 2xx and a body
\* {"choices": [{"message": {...}}]} whose message has a string content or none
WellFormed(resp) ==
    /\ resp # Unset
    /\ resp.net = "ok"
    /\ resp.status = "2xx"
    /\ resp.body.t = "dict"
    /\ resp.body.k = "choices"
    /\ resp.body.v.t = "list"
    /\ Len(resp.body.v.v) = 1
    /\ resp.body.v.v[1].t = "dict"
    /\ resp.body.v.v[1].k = "message"
    /\ resp.body.v.v[1].v.t = "dict"
    /\ resp.body.v.v[1].v.k = "content"
    /\ resp.body.v.v[1].v.v.t \in {"str", "absent"}

ContentOf(resp) == resp.body.v.v[1].v.v

\* t is s without its leading and trailing whitespace
IsTrimOf(t, s) ==
    \E i, j \in 0..Len(s) :
        /\ i + j <= Len(s)
        /\ \A k \in 1..i : s[k] = " "
        /\ \A k \in (Len(s) - j + 1)..Len(s) : s[k] = " "
        /\ t = SubSeq(s, i + 1, Len(s) - j)
        /\ t # << >> => (t[1] # " " /\ t[Len(t)] # " ")

\* s is empty or consists of whitespace
Blank(s) == \A k \in 1..Len(s) : s[k] = " "

\* C13: on a well-formed response generate_image_idea and
\* generate_detailed_prompt return the content without its leading and trailing
\* whitespace when that is non-empty, and None when the content is missing,
\* empty or whitespace only.
C13_TrimmedContentOrNone ==
    WellFormed(textResp) =>
        /\ textOut.exc = "none"
        /\ IF ContentOf(textResp).t = "str" /\ ~Blank(ContentOf(textResp).v)
           THEN /\ textOut.val.t = "str"
                /\ textOut.val.v # << >>
                /\ IsTrimOf(textOut.val.v, ContentOf(textResp).v)
           ELSE textOut.val = Null

C13_Witness ==
    /\ WellFormed(textResp)
    /\ ContentOf(textResp) = Str(<< "a", " " >>)
    /\ calls = << "idea", "prompt" >>
    /\ detailed_prompt = Str(<< "a" >>)

\* the publisher states in which a step of post_image can fail
UploadStates == { "AUTHENTICATED", "UPLOAD_STARTED", "FILE_SELECTED", "CROP_CONFIRMED",
                  "FILTERS_CONFIRMED", "CAPTION_ENTERED", "SHARED" }

\* the states of trace before its last one
Earlier(tr) == { tr[i] : i \in 1..(Len(tr) - 1) }

\* C14: FAILED is terminal inside the upload flow: once a step of post_image
\* failed no later step is performed on the browser (the share button is not
\* clicked after an earlier failure), post_image returns false and
\* post_to_instagram returns false.
C14_UploadFailureIsTerminal ==
    failedAt \in UploadStates =>
        /\ Last(trace) = "FAILED"
        /\ Earlier(trace) \cap {"FAILED", "VERIFIED"} = {}
        /\ failedAt # "SHARED" => "SHARED" \notin Earlier(trace)
        /\ ppc \in {"close", "returned", "raised"}
        /\ postResult = "False"
        /\ ~success
        /\ PublishLeft => publishOut = "False"

\* C15: the orchestrator reports successful completion (the log line of line 299
\* and exit status 0) only for runs in which every stage including publish
\* succeeded; a run whose post_to_instagram returned false is reported as failed.
C15_SuccessReportedOnlyIfPublished ==
    (completedLogged \/ exitStatus = 0) => publishOut = "True"

\* C16: after download_image returned, a file exists at the destination
\* filename if and only if download_image returned that filename: a failure
\* leaves no file behind.
C16_NoFileLeftOnFailure ==
    dlOut.exc = "none" => (DestFile \in fs <=> dlOut.val = Str(DestFile))

\* the invocations of post_to_instagram
PublishCalls == Cardinality({ i \in 1..Len(calls) : calls[i] = "publish" })

\* C17: when post_to_instagram returns, the session it created, if any, was
\* quit; when the driver construction failed close() performs no quit and
\* raises nothing; post_to_instagram is called once, so no driver is used by a
\* second call.
C17_NoSessionLeakOnReturn ==
    /\ ppc = "returned" =>
           IF session = "none" THEN quitCalls = 0
           ELSE session = "quit" /\ quitCalls = 1
    /\ (bot_driver = "None" /\ closeCalls = 1) =>
           (quitCalls = 0 /\ ppc = "returned" /\ uncaught = "none")
    /\ PublishCalls <= 1
    /\ session # "none" => PublishCalls = 1

C17_Witness ==
    /\ failedAt = "INIT"
    /\ bot_driver = "None"
    /\ session = "none"
    /\ ppc = "returned"
    /\ quitCalls = 0

\* C18: post_to_instagram always ends by returning a boolean; no exception of a
\* driver operation (construction, page load, wait, click, send_keys, the quit
\* of the teardown) reaches the orchestrator.
C18_PublishAlwaysReturnsBoolean ==
    /\ PublishLeft => (ppc = "returned" /\ publishOut \in {"True", "False"})
    /\ "publish" \in Invoked => uncaught = "none"

====
